---- MODULE Spec2Model ----
(***************************************************************************)
(* Model of the Flask observability demo (src/app.py): the four custom     *)
(* Prometheus instruments, the process-wide _active_users_count, and the   *)
(* route handlers that update them, log, and answer.                       *)
(*                                                                         *)
(* Worker threads serve requests.  Every handler is one atomic action,     *)
(* except metrics_demo, whose read-modify-write of the module global       *)
(* _active_users_count (line 173) is split into its load and its store,    *)
(* and whose later read of the global (line 181) is a step of its own, so  *)
(* that other threads can run in between.  Instrument operations           *)
(* (Counter.inc, Gauge.inc, Histogram.observe) are atomic: prometheus      *)
(* values are updated under a lock.                                        *)
(*                                                                         *)
(* Units: durations in milliseconds, random.random() in thousandths.       *)
(***************************************************************************)
EXTENDS Integers, Sequences, FiniteSets, TLC

\* ---------------------------------------------------------------- bounds
NumThreads == 2
MaxRequests == 3

Threads == 1..NumThreads

\* The values a random draw over the range lo..hi is modelled by: its two ends.
Sample(lo, hi) == {lo, hi}

\* ------------------------------------------------------- program constants
SeedMin == 10
SeedMax == 50
InsertSleepMin == 10
InsertSleepMax == 100
SelectSleepMin == 50
SelectSleepMax == 300
SlowSleepMin == 1000
SlowSleepMax == 3000
SuccessThreshold == 100
OrderIdMin == 1000
OrderIdMax == 9999
IncrementMin == -5
IncrementMax == 10
LoopMin == 1
LoopMax == 5
DemoValueMin == 10
DemoValueMax == 1000

\* random.random() in thousandths: the two values next to the comparison at
\* line 77, one on each side.
RandomDraws == {SuccessThreshold, SuccessThreshold + 1}

\* ------------------------------------------------------------ JSON values
Num(n) == [type |-> "number", v |-> n]
Str(n) == [type |-> "string", v |-> n]
Absent == [type |-> "absent", v |-> 0]

AliceBody == [kind |-> "object", amount |-> Num(100), customer |-> "alice"]
NoAmountBody == [kind |-> "object", amount |-> Absent, customer |-> "bob"]
TextAmountBody == [kind |-> "object", amount |-> Str(1), customer |-> "carol"]
NullBody == [kind |-> "null", amount |-> Absent, customer |-> "none"]

\* Bodies request.get_json() can return for a POST /api/orders.
Bodies == {AliceBody, NoAmountBody, TextAmountBody, NullBody}

UserIds == {"42", "7"}
UnmatchedPaths == {"/nope"}

\* order_data.get('amount', 0): the field, or the default when it is absent.
DictGetAmount(body) == IF body.amount.type = "absent" THEN Num(0) ELSE body.amount

\* order_data.get(...) raises AttributeError unless order_data is a dict.
HasGet(body) == body.kind = "object"

\* Histogram.observe adds the amount to a float sum: TypeError unless numeric.
Observable(x) == x.type = "number"

\* ------------------------------------------------------------ instruments
Observe(h, x) == [count |-> h.count + 1, sum |-> h.sum + x]
CounterInc(c, label) == [c EXCEPT ![label] = @ + 1]
\* Gauge.inc with a floor at zero.
GaugeIncFloored(g, d) == IF g + d < 0 THEN 0 ELSE g + d
GaugeInc(g, d) == g + d

EmptyHistogram == [count |-> 0, sum |-> 0]

\* ------------------------------------------------------------------ state
VARIABLES
    orders_total,            \* Counter orders_total, by status label
    order_value,             \* Histogram order_value_dollars
    database_query_duration, \* Histogram database_query_duration_seconds, by query_type
    active_users,            \* Gauge active_users
    _active_users_count,     \* module global
    pc,                      \* per thread: where its handler is
    local,                   \* per thread: metrics_demo's locals
    last,                    \* history: the request answered last, its response, its log events
    started,                 \* requests accepted so far
    threaded,                \* deployment: do handlers of different requests interleave
    seed,                    \* history: the value drawn at line 34
    hist                     \* history: totals the claims are stated against

instruments == <<orders_total, order_value, database_query_duration, active_users>>
vars == <<orders_total, order_value, database_query_duration, active_users,
          _active_users_count, pc, local, last, started, threaded, seed, hist>>

NoExchange == [id |-> 0, req |-> [route |-> "none"], status |-> 0,
               body |-> [none |-> TRUE], logs |-> <<>>]
NoLocal == [id |-> 0, increment |-> 0, loaded |-> 0]

\* The module as imported (lines 15-35), before any request.
Imported ==
    /\ orders_total = [l \in {"success", "failed"} |-> 0]
    /\ order_value = EmptyHistogram
    /\ database_query_duration = [q \in {"insert", "select"} |-> EmptyHistogram]
    /\ seed \in Sample(SeedMin, SeedMax)
    /\ active_users = seed
    /\ _active_users_count = seed
    /\ pc = [t \in Threads |-> "idle"]
    /\ local = [t \in Threads |-> NoLocal]
    /\ last = NoExchange
    /\ started = 0
    /\ hist = [created |-> 0, demo_iters |-> 0, deltas |-> 0]

\* Served one request at a time.
Init == Imported /\ threaded = FALSE

\* Served by a threaded server: the handlers of different requests interleave.
ThreadedInit == Imported /\ threaded = TRUE

AllIdle == \A t \in Threads : pc[t] = "idle"

\* An idle thread takes the next request; when requests are served one at a
\* time, only once the request before it has been answered.
Accept(t) ==
    /\ pc[t] = "idle"
    /\ threaded \/ AllIdle
    /\ UNCHANGED threaded
    /\ started < MaxRequests
    /\ started' = started + 1

\* The handler of request number id returns: r is the request, events the log
\* events it emitted.
Reply(id, r, status, body, events) ==
    last' = [id |-> id, req |-> r, status |-> status, body |-> body, logs |-> events]

LogEvent(level, message, extra) == [level |-> level, message |-> message, extra |-> extra]

\* --------------------------------------------------------------- handlers
home(t) ==
    /\ Accept(t)
    /\ Reply(started + 1, [route |-> "/"], 200,
             [service |-> "Flask Observability Demo", status |-> "running",
              timestamp |-> "utcnow"],
             <<LogEvent("info", "Home endpoint accessed", [endpoint |-> "/"])>>)
    /\ UNCHANGED <<instruments, _active_users_count, pc, local, seed, hist>>

\* A health check that logs its access.
health_logging(t) ==
    /\ Accept(t)
    /\ Reply(started + 1, [route |-> "/health"], 200, [status |-> "healthy"],
             <<LogEvent("info", "Health endpoint accessed", [endpoint |-> "/health"])>>)
    /\ UNCHANGED <<instruments, _active_users_count, pc, local, seed, hist>>

health(t) ==
    /\ Accept(t)
    /\ Reply(started + 1, [route |-> "/health"], 200, [status |-> "healthy"], <<>>)
    /\ UNCHANGED <<instruments, _active_users_count, pc, local, seed, hist>>

\* generate_latest(): the samples of the application's instruments.
generate_latest ==
    [orders_total |-> orders_total,
     order_value_dollars |-> order_value,
     database_query_duration_seconds |-> database_query_duration,
     active_users |-> active_users]

\* A scrape that clears the order-value histogram once it has read it.
metrics_endpoint_clearing(t) ==
    /\ Accept(t)
    /\ Reply(started + 1, [route |-> "/metrics"], 200, generate_latest, <<>>)
    /\ order_value' = EmptyHistogram
    /\ UNCHANGED <<orders_total, database_query_duration, active_users,
                   _active_users_count, pc, local, seed, hist>>

metrics_endpoint(t) ==
    /\ Accept(t)
    /\ Reply(started + 1, [route |-> "/metrics"], 200, generate_latest, <<>>)
    /\ UNCHANGED <<instruments, _active_users_count, pc, local, seed, hist>>

\* The registered 500 handler, answering for a handler that raised.
internal_error(id, r) ==
    Reply(id, r, 500, [error |-> "Internal server error"],
          <<LogEvent("error", "500 Internal Server Error", [path |-> r.route])>>)

\* A declined order answered as a created one.
OrderStatusAlwaysCreated(success) == 201
\* The status create_order returns on each branch (lines 92, 104).
OrderStatus(success) == IF success THEN 201 ELSE 400

create_order(t) ==
    \E order_data \in Bodies, d \in Sample(InsertSleepMin, InsertSleepMax),
       r \in RandomDraws,
       logged_id \in Sample(OrderIdMin, OrderIdMax),
       returned_id \in Sample(OrderIdMin, OrderIdMax) :
        LET success == r > SuccessThreshold
            amount == DictGetAmount(order_data)
            id == started + 1
            rq == [route |-> "/api/orders", body |-> order_data]
        IN
        /\ Accept(t)
        /\ database_query_duration' =
               [database_query_duration EXCEPT !["insert"] = Observe(@, d)]
        /\ IF success
           THEN /\ orders_total' = CounterInc(orders_total, "success")
                /\ IF HasGet(order_data) /\ Observable(amount)
                   THEN /\ order_value' = Observe(order_value, amount.v)
                        /\ Reply(id, rq, OrderStatus(success),
                                 [status |-> "success", order_id |-> returned_id],
                                 <<LogEvent("info", "Order created successfully",
                                            [order_id |-> logged_id,
                                             amount |-> amount,
                                             customer |-> order_data.customer])>>)
                        /\ hist' = [hist EXCEPT !.created = @ + 1]
                   ELSE /\ internal_error(id, rq)
                        /\ UNCHANGED <<order_value, hist>>
           ELSE /\ orders_total' = CounterInc(orders_total, "failed")
                /\ IF HasGet(order_data)
                   THEN Reply(id, rq, OrderStatus(success),
                              [status |-> "error", message |-> "Payment declined"],
                              <<LogEvent("error", "Order creation failed",
                                         [reason |-> "payment_declined",
                                          amount |-> amount])>>)
                   ELSE internal_error(id, rq)
                /\ UNCHANGED <<order_value, hist>>
        /\ UNCHANGED <<active_users, _active_users_count, pc, local, seed>>

get_user(t) ==
    \E user_id \in UserIds, d \in Sample(SelectSleepMin, SelectSleepMax) :
        /\ Accept(t)
        /\ database_query_duration' =
               [database_query_duration EXCEPT !["select"] = Observe(@, d)]
        /\ Reply(started + 1, [route |-> "/api/users", user_id |-> user_id], 200,
                 [user_id |-> user_id, username |-> "user_" \o user_id, active |-> TRUE],
                 <<LogEvent("info", "User lookup", [user_id |-> user_id])>>)
        /\ UNCHANGED <<orders_total, order_value, active_users, _active_users_count,
                       pc, local, seed, hist>>

slow_endpoint(t) ==
    \E duration \in Sample(SlowSleepMin, SlowSleepMax) :
        /\ Accept(t)
        /\ Reply(started + 1, [route |-> "/api/slow"], 200,
                 [message |-> "This was intentionally slow", duration |-> duration],
                 <<LogEvent("warning", "Slow endpoint accessed",
                            [endpoint |-> "/api/slow", expected_duration |-> duration])>>)
        /\ UNCHANGED <<instruments, _active_users_count, pc, local, seed, hist>>

\* The table with the reasons of its first two rows exchanged.
error_types_crossed ==
    << <<500, "Internal Server Error", "downstream_service_timeout">>,
       <<503, "Service Unavailable", "database_connection_failed">>,
       <<429, "Too Many Requests", "rate_limit_exceeded">> >>

error_types ==
    << <<500, "Internal Server Error", "database_connection_failed">>,
       <<503, "Service Unavailable", "downstream_service_timeout">>,
       <<429, "Too Many Requests", "rate_limit_exceeded">> >>

error_endpoint(t) ==
    \E i \in DOMAIN error_types :
        LET status_code == error_types[i][1]
            message == error_types[i][2]
            reason == error_types[i][3]
        IN
        /\ Accept(t)
        /\ Reply(started + 1, [route |-> "/api/error"], status_code,
                 [error |-> message, reason |-> reason],
                 <<LogEvent("error", "Error endpoint triggered",
                            [status_code |-> status_code, reason |-> reason])>>)
        /\ UNCHANGED <<instruments, _active_users_count, pc, local, seed, hist>>

\* metrics_demo, lines 171-172: draw the increment, active_users.inc(increment).
metrics_demo(t) ==
    \E increment \in Sample(IncrementMin, IncrementMax) :
        /\ Accept(t)
        /\ active_users' = GaugeInc(active_users, increment)
        /\ local' = [local EXCEPT ![t] =
                        [NoLocal EXCEPT !.id = started + 1, !.increment = increment]]
        /\ hist' = [hist EXCEPT !.deltas = @ + increment]
        /\ pc' = [pc EXCEPT ![t] = "load"]
        /\ UNCHANGED <<orders_total, order_value, database_query_duration,
                       _active_users_count, last, seed>>

\* line 173, first half: load the global.
metrics_demo_load(t) ==
    /\ pc[t] = "load"
    /\ local' = [local EXCEPT ![t].loaded = _active_users_count]
    /\ pc' = [pc EXCEPT ![t] = "store"]
    /\ UNCHANGED <<instruments, _active_users_count, last, started, threaded, seed, hist>>

\* line 173, second half: store the sum.
metrics_demo_store(t) ==
    /\ pc[t] = "store"
    /\ _active_users_count' = local[t].loaded + local[t].increment
    /\ pc' = [pc EXCEPT ![t] = "loop"]
    /\ UNCHANGED <<instruments, local, last, started, threaded, seed, hist>>

\* lines 175-177: the loop, run for the values of its rounds in turn.  Each
\* round is orders_total{success}.inc() and one order_value observation.
RECURSIVE RunRounds(_, _, _)
RunRounds(counter, histogram, values) ==
    IF values = <<>>
    THEN [orders_total |-> counter, order_value |-> histogram]
    ELSE RunRounds(CounterInc(counter, "success"),
                   Observe(histogram, Head(values)),
                   Tail(values))

\* lines 175-182: draw the number of rounds, run them, and answer with the
\* global's current value.
metrics_demo_return(t) ==
    \E n \in Sample(LoopMin, LoopMax) :
        \E values \in [1..n -> Sample(DemoValueMin, DemoValueMax)] :
            LET after == RunRounds(orders_total, order_value, values) IN
            /\ pc[t] = "loop"
            /\ orders_total' = after.orders_total
            /\ order_value' = after.order_value
            /\ hist' = [hist EXCEPT !.demo_iters = @ + n]
            /\ Reply(local[t].id, [route |-> "/api/metrics-demo"], 200,
                     [message |-> "Metrics generated",
                      active_users |-> _active_users_count],
                     <<>>)
            /\ pc' = [pc EXCEPT ![t] = "idle"]
            /\ local' = [local EXCEPT ![t] = NoLocal]
            /\ UNCHANGED <<database_query_duration, active_users, _active_users_count,
                           started, threaded, seed>>

not_found(t) ==
    \E path \in UnmatchedPaths :
        /\ Accept(t)
        /\ Reply(started + 1, [route |-> "unmatched", path |-> path], 404,
                 [error |-> "Not found"],
                 <<LogEvent("warning", "404 Not Found",
                            [path |-> path, method |-> "GET"])>>)
        /\ UNCHANGED <<instruments, _active_users_count, pc, local, seed, hist>>

Step(t) ==
    \/ home(t)
    \/ health(t)
    \/ metrics_endpoint(t)
    \/ create_order(t)
    \/ get_user(t)
    \/ slow_endpoint(t)
    \/ error_endpoint(t)
    \/ metrics_demo(t)
    \/ metrics_demo_load(t)
    \/ metrics_demo_store(t)
    \/ metrics_demo_return(t)
    \/ not_found(t)

Next == \E t \in Threads : Step(t)

Spec == Init /\ [][Next]_vars

ThreadedSpec == ThreadedInit /\ [][Next]_vars

\* ----------------------------------------------------------------- claims
\* The step in which a request to the given route is answered.
Answered(route) == last'.id # last.id /\ last'.req.route = route

\* C1: once every request has been answered, orders_total{status="success"}
\* equals the number of orders answered 201 plus the number of loop rounds run
\* by all metrics-demo requests.
SuccessCounterCountsOrdersAndRounds ==
    AllIdle => orders_total["success"] = hist.created + hist.demo_iters

\* C2: with requests served one after the other, the active_users gauge and the
\* global count equal the seed plus the sum of the increments drawn so far,
\* whatever its sign or size, and each metrics-demo response reports that sum.
GaugeFollowsDeltas ==
    /\ active_users = seed + hist.deltas
    /\ AllIdle => _active_users_count = seed + hist.deltas
    /\ (AllIdle /\ last.req.route = "/api/metrics-demo")
           => last.body.active_users = seed + hist.deltas

GaugeBelowZero ==
    /\ AllIdle
    /\ last.req.route = "/api/metrics-demo"
    /\ last.body.active_users < 0
    /\ active_users < 0

\* C3: a POST /api/orders with body {"amount":100,"customer":"alice"} is
\* answered 201 or 400; 201 carries status "success" and an order_id in
\* 1000..9999, 400 carries exactly the "Payment declined" error body; it is 201
\* exactly when the request added 1 to orders_total{success} and 400 exactly
\* when it added 1 to orders_total{failed}.
AliceOrderOutcome ==
    [][(Answered("/api/orders") /\ last'.req.body = AliceBody) =>
          /\ last'.status \in {201, 400}
          /\ last'.status = 201 =>
                 /\ last'.body.status = "success"
                 /\ last'.body.order_id \in 1000..9999
          /\ last'.status = 400 =>
                 last'.body = [status |-> "error", message |-> "Payment declined"]
          /\ last'.status = 201 <=>
                 orders_total'["success"] = orders_total["success"] + 1
          /\ last'.status = 400 <=>
                 orders_total'["failed"] = orders_total["failed"] + 1
          /\ orders_total'["success"] + orders_total'["failed"] =
                 orders_total["success"] + orders_total["failed"] + 1]_vars

AliceOrderCreated ==
    /\ last.req.route = "/api/orders"
    /\ last.req.body = AliceBody
    /\ last.status = 201
    /\ orders_total["success"] = 1
    /\ orders_total["failed"] = 1

\* C4: whatever the interleaving of metrics-demo requests, once all of them
\* have returned the gauge and the global count both equal the seed plus the
\* sum of all increments.
ActiveUsersAtomic ==
    AllIdle => /\ active_users = seed + hist.deltas
               /\ _active_users_count = seed + hist.deltas

\* C5: answering /metrics changes no instrument and not the global count, the
\* body reports the instruments as they are, and a second /metrics read right
\* after reports the same.
MetricsReadOnly ==
    [][Answered("/metrics") =>
          /\ UNCHANGED <<instruments, _active_users_count>>
          /\ last'.body.orders_total = orders_total
          /\ last'.body.order_value_dollars = order_value
          /\ last'.body.database_query_duration_seconds = database_query_duration
          /\ last'.body.active_users = active_users
          /\ last.req.route = "/metrics" => last'.body = last.body]_vars

MetricsReadTwice ==
    /\ last.req.route = "/metrics"
    /\ last.id = 3
    /\ last.body.orders_total["success"] > 0
    /\ last.body.order_value_dollars.count > 0

\* C6: an order whose body has no amount, or an amount that is not a number,
\* is handled as an order of amount 0: it is answered 201 or 400, never 500,
\* and a 201 has recorded the amount 0.
AmountDefaultsToZero ==
    (/\ last.req.route = "/api/orders"
     /\ HasGet(last.req.body)
     /\ last.req.body.amount.type # "number")
        => /\ last.status \in {201, 400}
           /\ last.status = 201 => last.logs[1].extra.amount = Num(0)

ErrorTriples ==
    [][Answered("/api/error") =>
          /\ <<last'.status, last'.body.error, last'.body.reason>> \in
                 { <<500, "Internal Server Error", "database_connection_failed">>,
                   <<503, "Service Unavailable", "downstream_service_timeout">>,
                   <<429, "Too Many Requests", "rate_limit_exceeded">> }
          /\ UNCHANGED <<instruments, _active_users_count>>]_vars

RateLimitAnswered ==
    /\ last.req.route = "/api/error"
    /\ last.status = 429
    /\ last.body.reason = "rate_limit_exceeded"

\* C9: the order_id logged for a created order is the order_id returned.
OneOrderIdPerOrder ==
    (last.req.route = "/api/orders" /\ last.status = 201)
        => last.logs[1].extra.order_id = last.body.order_id

\* C10: once every request has been answered, order_value_dollars holds as
\* many observations as orders_total{status="success"} counts.
ObservationPerSuccess ==
    AllIdle => order_value.count = orders_total["success"]
====
